---- MODULE Spec2Model ----
(***************************************************************************)
(* OpsGuard incident triage backend (backend/main.py, backend/database.py). *)
(*                                                                         *)
(* The model follows the asyncio execution of the FastAPI application:     *)
(* predict_log and websocket_endpoint are coroutines on one event loop, so *)
(* the code between two awaits of a coroutine runs without interleaving    *)
(* with any other coroutine.  `loop` names the submission whose handler    *)
(* currently holds the event loop (0: the loop is idle).  The only awaits  *)
(* of predict_log are the send_text calls inside ConnectionManager         *)
(* .broadcast; the classifier, the SQLAlchemy session and the Redis client *)
(* are synchronous calls.  The peers of the websockets (close, stall) act  *)
(* at any time.                                                            *)
(***************************************************************************)
EXTENDS Integers, Sequences, FiniteSets, TLC

\* Number of predict_log requests and of websocket clients in the model.
NumSubs == 2
NumConns == 3
\* get_logs: .limit(50)
LogsCap == 50

Subs == 1..NumSubs
Conns == 1..NumConns

VARIABLES
    pc,            \* pc[s]: position of the predict_log call for request s
    loop,          \* submission whose handler runs on the event loop, 0 if none
    failedAt,      \* failedAt[s]: the step of request s that raised, or "none"
    store,         \* rows of the incidents table, in insertion order
    incId,         \* incId[s]: new_incident.id read by request s (0: not read)
    r,             \* TRUE iff the module-level Redis handle r is not None
    cache,         \* value of the Redis key latest_incident (NoPayload: unset)
    cacheOutcome,  \* cacheOutcome[s]: "none", "ok", "failed" or "absent"
    active,        \* manager.active_connections
    conn,          \* conn[c]: state of websocket c and of its endpoint coroutine
    received,      \* received[c]: texts delivered to the peer of websocket c
    idx,           \* idx[s]: index of the list iterator of s's broadcast loop
    disconnected,  \* disconnected[s]: local list of s's broadcast call
    target,        \* target[s]: connection of the send_text s is suspended in
    sendOk,        \* sendOk[s]: the pending send_text wrote the text to the peer
    waiters,       \* waiters[c]: submissions suspended in send_text on c, oldest first
    snapshot,      \* snapshot[s]: active_connections when s's broadcast was called
    attempted,     \* attempted[s]: connections s's broadcast called send_text on
    border,        \* border[s]: rank of s's broadcast call among all calls (0: not called)
    logs           \* rows returned by the latest get_logs call

vars == <<pc, loop, failedAt, store, incId, r, cache, cacheOutcome, active, conn,
          received, idx, disconnected, target, sendOk, waiters, snapshot,
          attempted, border, logs>>

pipeVars == <<pc, loop, failedAt, incId, cacheOutcome>>
bcastVars == <<idx, disconnected, target, sendOk, waiters, snapshot, attempted, border>>

NoPayload == [id |-> 0, message |-> 0]

----------------------------------------------------------------------------
\* Helpers on Python lists

Contains(list, x) == \E i \in 1..Len(list) : list[i] = x

Elems(list) == {list[i] : i \in 1..Len(list)}

IndexOf(list, x) ==
    CHOOSE i \in 1..Len(list) : list[i] = x /\ \A j \in 1..(i - 1) : list[j] # x

\* list.remove(x): removes the first occurrence, raises ValueError if there is none
ListRemove(list, x) ==
    IF Contains(list, x)
    THEN [raised |-> FALSE,
          list |-> [i \in 1..(Len(list) - 1) |->
                       IF i < IndexOf(list, x) THEN list[i] ELSE list[i + 1]]]
    ELSE [raised |-> TRUE, list |-> list]

\* ConnectionManager.disconnect that only logs
disconnectNoop(conns, websocket) == [raised |-> FALSE, list |-> conns]

\* ConnectionManager.disconnect without the membership test
disconnectUnchecked(conns, websocket) == ListRemove(conns, websocket)

\* ConnectionManager.disconnect
disconnect(conns, websocket) ==
    IF Contains(conns, websocket)
    THEN ListRemove(conns, websocket)
    ELSE [raised |-> FALSE, list |-> conns]

\* broadcast dropping the whole list as soon as one delivery failed
disconnectAllClear(conns, dead) == IF dead = <<>> THEN conns ELSE <<>>

\* broadcast's second loop stopping after the first collected connection
disconnectFirstOnly(conns, dead) ==
    IF dead = <<>> THEN conns ELSE disconnect(conns, Head(dead)).list

\* for conn in disconnected: self.disconnect(conn)
RECURSIVE disconnectAll(_, _)
disconnectAll(conns, dead) ==
    IF dead = <<>> THEN conns
    ELSE disconnectAll(disconnect(conns, Head(dead)).list, Tail(dead))

\* Incident.id: integer primary key, assigned by the database on insert
NewId == IF store = <<>> THEN 1 ELSE store[Len(store)].id + 1

\* response_data of request s (the message text stands for itself as s)
Payload(s) == [id |-> incId[s], message |-> s]

\* get_logs: order_by(Incident.id.desc()).limit(50)
RECURSIVE SortDesc(_)
SortDesc(rows) ==
    IF rows = {} THEN <<>>
    ELSE LET top == CHOOSE x \in rows : \A y \in rows : y.id <= x.id
         IN <<top>> \o SortDesc(rows \ {top})

\* get_logs without .limit(50)
get_logsUnlimited == SortDesc(Elems(store))

get_logs ==
    LET sorted == SortDesc(Elems(store))
    IN SubSeq(sorted, 1, IF Len(sorted) < LogsCap THEN Len(sorted) ELSE LogsCap)

----------------------------------------------------------------------------
Init ==
    /\ pc = [s \in Subs |-> "Idle"]
    /\ loop = 0
    /\ failedAt = [s \in Subs |-> "none"]
    /\ store = <<>>
    /\ incId = [s \in Subs |-> 0]
    /\ r \in BOOLEAN
    /\ cache = NoPayload
    /\ cacheOutcome = [s \in Subs |-> "none"]
    /\ active = <<>>
    /\ conn = [c \in Conns |-> "new"]
    /\ received = [c \in Conns |-> <<>>]
    /\ idx = [s \in Subs |-> 0]
    /\ disconnected = [s \in Subs |-> <<>>]
    /\ target = [s \in Subs |-> 0]
    /\ sendOk = [s \in Subs |-> FALSE]
    /\ waiters = [c \in Conns |-> <<>>]
    /\ snapshot = [s \in Subs |-> {}]
    /\ attempted = [s \in Subs |-> {}]
    /\ border = [s \in Subs |-> 0]
    /\ logs = <<>>

----------------------------------------------------------------------------
\* predict_log

\* The request handler is started on the idle event loop.  Requests are
\* numbered in the order in which their handlers start.
Submit(s) ==
    /\ loop = 0
    /\ pc[s] = "Idle"
    /\ \A t \in Subs : t < s => pc[t] # "Idle"
    /\ pc' = [pc EXCEPT ![s] = "Received"]
    /\ loop' = s
    /\ UNCHANGED <<failedAt, store, incId, r, cache, cacheOutcome, active, conn,
                   received>>
    /\ UNCHANGED bcastVars
    /\ UNCHANGED logs

\* vectorizer.transform / predict_proba / predict succeed
ClassifyOk(s) ==
    /\ loop = s
    /\ pc[s] = "Received"
    /\ pc' = [pc EXCEPT ![s] = "Classified"]
    /\ UNCHANGED <<loop, failedAt, store, incId, r, cache, cacheOutcome, active,
                   conn, received>>
    /\ UNCHANGED bcastVars
    /\ UNCHANGED logs

\* the classifier error is logged and the handler goes on
ClassifyFailSwallowed(s) ==
    /\ loop = s
    /\ pc[s] = "Received"
    /\ failedAt' = [failedAt EXCEPT ![s] = "classify"]
    /\ pc' = [pc EXCEPT ![s] = "Classified"]
    /\ UNCHANGED <<loop, store, incId, r, cache, cacheOutcome, active, conn,
                   received>>
    /\ UNCHANGED bcastVars
    /\ UNCHANGED logs

\* except Exception: raise HTTPException(500, "Prediction failed")
ClassifyFail(s) ==
    /\ loop = s
    /\ pc[s] = "Received"
    /\ failedAt' = [failedAt EXCEPT ![s] = "classify"]
    /\ pc' = [pc EXCEPT ![s] = "ClassificationFailed"]
    /\ loop' = 0
    /\ UNCHANGED <<store, incId, r, cache, cacheOutcome, active, conn, received>>
    /\ UNCHANGED bcastVars
    /\ UNCHANGED logs

\* the database error is logged and the handler goes on to the cache step
OnDbErrorSwallowed(s, step) ==
    /\ failedAt' = [failedAt EXCEPT ![s] = step]
    /\ pc' = [pc EXCEPT ![s] = "Persisted"]
    /\ loop' = loop

\* the failed step is tried again from the start of the try block
OnDbErrorRetry(s, step) ==
    /\ failedAt' = [failedAt EXCEPT ![s] = step]
    /\ pc' = [pc EXCEPT ![s] = "Classified"]
    /\ loop' = loop

\* except Exception: db.rollback(); raise HTTPException(500, "Database error")
\* (rollback discards the pending row; a committed row is not affected)
OnDbError(s, step) ==
    /\ failedAt' = [failedAt EXCEPT ![s] = step]
    /\ pc' = [pc EXCEPT ![s] = "PersistenceFailed"]
    /\ loop' = 0

\* Incident(...); db.add(new_incident)
DbAdd(s) ==
    /\ loop = s
    /\ pc[s] = "Classified"
    /\ \/ /\ pc' = [pc EXCEPT ![s] = "Added"]
          /\ UNCHANGED <<loop, failedAt>>
       \/ OnDbError(s, "add")
    /\ UNCHANGED <<store, incId, r, cache, cacheOutcome, active, conn, received>>
    /\ UNCHANGED bcastVars
    /\ UNCHANGED logs

\* db.commit(): the row is inserted with the next id and made durable
DbCommit(s) ==
    /\ loop = s
    /\ pc[s] = "Added"
    /\ \/ /\ store' = Append(store, [id |-> NewId, message |-> s])
          /\ pc' = [pc EXCEPT ![s] = "Committed"]
          /\ UNCHANGED <<loop, failedAt>>
       \/ /\ OnDbError(s, "commit")
          /\ UNCHANGED store
    /\ UNCHANGED <<incId, r, cache, cacheOutcome, active, conn, received>>
    /\ UNCHANGED bcastVars
    /\ UNCHANGED logs

\* db.refresh loading the first row of the table instead of the new one
DbRefreshFirstRow(s) ==
    /\ loop = s
    /\ pc[s] = "Committed"
    /\ \/ /\ incId' = [incId EXCEPT ![s] = store[1].id]
          /\ pc' = [pc EXCEPT ![s] = "Persisted"]
          /\ UNCHANGED <<loop, failedAt>>
       \/ /\ OnDbError(s, "refresh")
          /\ UNCHANGED incId
    /\ UNCHANGED <<store, r, cache, cacheOutcome, active, conn, received>>
    /\ UNCHANGED bcastVars
    /\ UNCHANGED logs

\* db.refresh(new_incident): reloads the committed row, new_incident.id is set
DbRefresh(s) ==
    /\ loop = s
    /\ pc[s] = "Committed"
    /\ \/ /\ incId' = [incId EXCEPT ![s] =
                          (CHOOSE row \in Elems(store) : row.message = s).id]
          /\ pc' = [pc EXCEPT ![s] = "Persisted"]
          /\ UNCHANGED <<loop, failedAt>>
       \/ /\ OnDbError(s, "refresh")
          /\ UNCHANGED incId
    /\ UNCHANGED <<store, r, cache, cacheOutcome, active, conn, received>>
    /\ UNCHANGED bcastVars
    /\ UNCHANGED logs

\* a Redis error leaves the try block as an HTTP 500
OnCacheErrorRaised(s) ==
    /\ pc' = [pc EXCEPT ![s] = "PersistenceFailed"]
    /\ loop' = 0

\* except Exception: logger.warning(...)
OnCacheError(s) ==
    /\ pc' = [pc EXCEPT ![s] = "CacheAttempted"]
    /\ loop' = loop

\* if r: try: r.set("latest_incident", json.dumps(response_data))
CacheWrite(s) ==
    /\ loop = s
    /\ pc[s] = "Persisted"
    /\ \/ /\ ~r
          /\ cacheOutcome' = [cacheOutcome EXCEPT ![s] = "absent"]
          /\ pc' = [pc EXCEPT ![s] = "CacheAttempted"]
          /\ UNCHANGED <<cache, loop>>
       \/ /\ r
          /\ cache' = Payload(s)
          /\ cacheOutcome' = [cacheOutcome EXCEPT ![s] = "ok"]
          /\ pc' = [pc EXCEPT ![s] = "CacheAttempted"]
          /\ UNCHANGED loop
       \/ /\ r
          /\ cacheOutcome' = [cacheOutcome EXCEPT ![s] = "failed"]
          /\ OnCacheError(s)
          /\ UNCHANGED cache
    /\ UNCHANGED <<failedAt, store, incId, r, active, conn, received>>
    /\ UNCHANGED bcastVars
    /\ UNCHANGED logs

----------------------------------------------------------------------------
\* ConnectionManager.broadcast, called from predict_log

\* await manager.broadcast(json.dumps(response_data)): disconnected = [] and
\* the iterator of the for loop over self.active_connections is created
BroadcastStart(s) ==
    /\ loop = s
    /\ pc[s] = "CacheAttempted"
    /\ pc' = [pc EXCEPT ![s] = "Broadcast"]
    /\ idx' = [idx EXCEPT ![s] = 1]
    /\ disconnected' = [disconnected EXCEPT ![s] = <<>>]
    /\ snapshot' = [snapshot EXCEPT ![s] = Elems(active)]
    /\ border' = [border EXCEPT ![s] = Cardinality({t \in Subs : border[t] > 0}) + 1]
    /\ UNCHANGED <<loop, failedAt, store, incId, r, cache, cacheOutcome, active,
                   conn, received, target, sendOk, waiters, attempted>>
    /\ UNCHANGED logs

\* The iterator yields self.active_connections[idx] of the list as it is now,
\* and connection.send_text(message) is called and awaited.  The text reaches
\* an open peer in the order of the calls; a stalled peer takes nothing; a
\* closed one makes the call raise.
BroadcastSend(s) ==
    /\ loop = s
    /\ pc[s] = "Broadcast"
    /\ idx[s] <= Len(active)
    /\ LET c == active[idx[s]]
       IN /\ idx' = [idx EXCEPT ![s] = idx[s] + 1]
          /\ target' = [target EXCEPT ![s] = c]
          /\ attempted' = [attempted EXCEPT ![s] = attempted[s] \cup {c}]
          /\ sendOk' = [sendOk EXCEPT ![s] = (conn[c] = "open")]
          /\ received' = IF conn[c] = "open"
                         THEN [received EXCEPT ![c] = Append(received[c], Payload(s))]
                         ELSE received
          /\ waiters' = [waiters EXCEPT ![c] = Append(waiters[c], s)]
    /\ pc' = [pc EXCEPT ![s] = "Sending"]
    /\ loop' = 0
    /\ UNCHANGED <<failedAt, store, incId, r, cache, cacheOutcome, active, conn,
                   disconnected, snapshot, border>>
    /\ UNCHANGED logs

\* The awaited send_text completes or raises, and the handler is resumed.
\* Calls on one websocket complete in the order in which they were made.
\* except: disconnected.append(connection)
SendReturn(s) ==
    /\ loop = 0
    /\ pc[s] = "Sending"
    /\ Head(waiters[target[s]]) = s
    /\ sendOk[s] \/ conn[target[s]] \in {"closed", "ended"}
    /\ loop' = s
    /\ pc' = [pc EXCEPT ![s] = "Broadcast"]
    /\ waiters' = [waiters EXCEPT ![target[s]] = Tail(waiters[target[s]])]
    /\ disconnected' = IF sendOk[s] THEN disconnected
                       ELSE [disconnected EXCEPT ![s] = Append(disconnected[s], target[s])]
    /\ target' = [target EXCEPT ![s] = 0]
    /\ sendOk' = [sendOk EXCEPT ![s] = FALSE]
    /\ UNCHANGED <<failedAt, store, incId, r, cache, cacheOutcome, active, conn,
                   received, idx, snapshot, attempted, border>>
    /\ UNCHANGED logs

\* The iterator is exhausted; for conn in disconnected: self.disconnect(conn);
\* broadcast returns and predict_log returns {"status": "success", ...}
BroadcastFinish(s) ==
    /\ loop = s
    /\ pc[s] = "Broadcast"
    /\ idx[s] > Len(active)
    /\ active' = disconnectAll(active, disconnected[s])
    /\ pc' = [pc EXCEPT ![s] = "Done"]
    /\ loop' = 0
    /\ UNCHANGED <<failedAt, store, incId, r, cache, cacheOutcome, conn, received,
                   idx, disconnected, target, sendOk, waiters, snapshot, attempted,
                   border>>
    /\ UNCHANGED logs

----------------------------------------------------------------------------
\* websocket_endpoint and the peers

\* connect inserting the new websocket at the head of the list
WsConnectAtHead(c) ==
    /\ loop = 0
    /\ conn[c] = "new"
    /\ \A d \in Conns : d < c => conn[d] # "new"
    /\ active' = <<c>> \o active
    /\ conn' = [conn EXCEPT ![c] = "open"]
    /\ UNCHANGED <<store, r, cache, received>>
    /\ UNCHANGED pipeVars
    /\ UNCHANGED bcastVars
    /\ UNCHANGED logs

\* await manager.connect(websocket): accept, then append to the list; the
\* endpoint then waits in receive_text.  Until the append the websocket is
\* known to no other coroutine, so accept and append are one step (an accept
\* that raises ends the endpoint with the list untouched).  A text received
\* from the peer is dropped and the endpoint waits again: no state changes.
\* Websockets are numbered in the order in which they connect.
WsConnect(c) ==
    /\ loop = 0
    /\ conn[c] = "new"
    /\ \A d \in Conns : d < c => conn[d] # "new"
    /\ active' = Append(active, c)
    /\ conn' = [conn EXCEPT ![c] = "open"]
    /\ UNCHANGED <<store, r, cache, received>>
    /\ UNCHANGED pipeVars
    /\ UNCHANGED bcastVars
    /\ UNCHANGED logs

\* The peer stops reading: writes to it do not complete any more.
PeerStall(c) ==
    /\ conn[c] = "open"
    /\ conn' = [conn EXCEPT ![c] = "stalled"]
    /\ UNCHANGED <<store, r, cache, active, received>>
    /\ UNCHANGED pipeVars
    /\ UNCHANGED bcastVars
    /\ UNCHANGED logs

\* The channel is closed: sends raise, receive_text raises WebSocketDisconnect.
PeerClose(c) ==
    /\ conn[c] \in {"open", "stalled"}
    /\ conn' = [conn EXCEPT ![c] = "closed"]
    /\ UNCHANGED <<store, r, cache, active, received>>
    /\ UNCHANGED pipeVars
    /\ UNCHANGED bcastVars
    /\ UNCHANGED logs

\* except WebSocketDisconnect: manager.disconnect(websocket)
WsDisconnect(c) ==
    /\ loop = 0
    /\ conn[c] = "closed"
    /\ ~disconnect(active, c).raised
    /\ active' = disconnect(active, c).list
    /\ conn' = [conn EXCEPT ![c] = "ended"]
    /\ UNCHANGED <<store, r, cache, received>>
    /\ UNCHANGED pipeVars
    /\ UNCHANGED bcastVars
    /\ UNCHANGED logs

\* GET /api/v1/logs: a plain def, run by a worker thread at any time; it
\* reads the table in one query and changes nothing of the application.
GetLogs ==
    /\ logs' = get_logs
    /\ UNCHANGED <<store, r, cache, active, conn, received>>
    /\ UNCHANGED pipeVars
    /\ UNCHANGED bcastVars

----------------------------------------------------------------------------
Next ==
    \/ \E s \in Subs : Submit(s)
    \/ \E s \in Subs : ClassifyOk(s)
    \/ \E s \in Subs : ClassifyFail(s)
    \/ \E s \in Subs : DbAdd(s)
    \/ \E s \in Subs : DbCommit(s)
    \/ \E s \in Subs : DbRefresh(s)
    \/ \E s \in Subs : CacheWrite(s)
    \/ \E s \in Subs : BroadcastStart(s)
    \/ \E s \in Subs : BroadcastSend(s)
    \/ \E s \in Subs : SendReturn(s)
    \/ \E s \in Subs : BroadcastFinish(s)
    \/ \E c \in Conns : WsConnect(c)
    \/ \E c \in Conns : PeerStall(c)
    \/ \E c \in Conns : PeerClose(c)
    \/ \E c \in Conns : WsDisconnect(c)
    \/ GetLogs

Spec == Init /\ [][Next]_vars

\* The event loop runs every coroutine that is ready; nothing is assumed of
\* the clients (new requests, new websockets) or of the peers (stall, close).
Handler(s) ==
    \/ ClassifyOk(s) \/ ClassifyFail(s) \/ DbAdd(s) \/ DbCommit(s) \/ DbRefresh(s)
    \/ CacheWrite(s) \/ BroadcastStart(s) \/ BroadcastSend(s) \/ SendReturn(s)
    \/ BroadcastFinish(s)

FairSpec ==
    /\ Spec
    /\ \A s \in Subs : WF_vars(Handler(s))
    /\ \A c \in Conns : WF_vars(WsDisconnect(c))

----------------------------------------------------------------------------
\* get_logs on a table of more rows than its limit.  The table outlives the
\* process, so its rows are those of all earlier requests: here rows are
\* committed one after the other, as by DbCommit, and get_logs is called in
\* between.

\* Largest number of rows of the table
MaxRows == 52

\* db.commit() of some request: one more row, with the next id
RowCommitted ==
    /\ Len(store) < MaxRows
    /\ store' = Append(store, [id |-> NewId, message |-> 1])
    /\ UNCHANGED <<r, cache, active, conn, received, logs>>
    /\ UNCHANGED pipeVars
    /\ UNCHANGED bcastVars

LogsNext == RowCommitted \/ GetLogs

LogsSpec == Init /\ [][LogsNext]_vars

----------------------------------------------------------------------------
\* Vocabulary of the properties

Failed(s) == pc[s] \in {"ClassificationFailed", "PersistenceFailed"}

Stored(s) == \E row \in Elems(store) : row.message = s

Got(c, s) == \E i \in 1..Len(received[c]) : received[c][i].message = s

Pos(c, s) == CHOOSE i \in 1..Len(received[c]) : received[c][i].message = s

DbSteps == {"add", "commit", "refresh"}

----------------------------------------------------------------------------
\* C1: every submission either returns success and its id is in the incident
\* store and in get_logs, or returns a failure and the store holds no row for
\* it, whichever of add, commit and refresh raised.
C1_SuccessOrNoRecord ==
    \A s \in Subs :
        /\ pc[s] = "Done" =>
               \E i \in 1..Len(get_logs) :
                   get_logs[i] = [id |-> incId[s], message |-> s]
        /\ Failed(s) => ~Stored(s)

\* C2: a submission whose classifier step failed has inserted no row, written
\* no cache value and broadcast nothing.
C2_ClassifierFailureNoEffect ==
    \A s \in Subs :
        failedAt[s] = "classify" =>
            /\ ~Stored(s)
            /\ cache.message # s
            /\ cacheOutcome[s] = "none"
            /\ border[s] = 0
            /\ \A c \in Conns : ~Got(c, s)

C2_Witness ==
    \E s, t \in Subs :
        /\ failedAt[s] = "classify"
        /\ pc[s] = "ClassificationFailed"
        /\ pc[t] = "Done"
        /\ cache.message = t
        /\ \E c \in Conns : Got(c, t)

\* C3: a submission whose store step failed never writes the cache slot and
\* never delivers to a subscriber; whatever was cached or broadcast belongs to
\* a submission whose row is in the store under the id it carries.
C3_StoreFailureNoCacheNoBroadcast ==
    \A s \in Subs :
        /\ failedAt[s] \in DbSteps =>
               /\ cache.message # s
               /\ cacheOutcome[s] = "none"
               /\ border[s] = 0
               /\ \A c \in Conns : ~Got(c, s)
        /\ (cacheOutcome[s] # "none" \/ border[s] > 0) =>
               [id |-> incId[s], message |-> s] \in Elems(store)
        /\ \A c \in Conns : \A i \in 1..Len(received[c]) :
               received[c][i] \in Elems(store)
        /\ cache # NoPayload => cache \in Elems(store)

C3_Witness ==
    \E s, t \in Subs :
        /\ failedAt[s] \in DbSteps
        /\ pc[s] = "PersistenceFailed"
        /\ cache.message = t
        /\ \E c \in Conns : conn[c] = "open" /\ Contains(active, c) /\ Got(c, t)

\* C4: a failed cache write, or an absent cache handle, never fails the
\* submission and never keeps it from the broadcast: the submission goes on to
\* the broadcast and returns success only after the broadcast was called.
C4_CacheFailureNotFatal ==
    \A s \in Subs :
        /\ cacheOutcome[s] \in {"failed", "absent"} =>
               /\ pc[s] \in {"CacheAttempted", "Broadcast", "Sending", "Done"}
               /\ failedAt[s] = "none"
        /\ (cacheOutcome[s] # "none" /\ pc[s] # "CacheAttempted") => border[s] > 0

C4_Witness ==
    \E s \in Subs :
        /\ cacheOutcome[s] = "failed"
        /\ pc[s] = "Done"
        /\ cache.message # s
        /\ \E c \in Conns : Got(c, s)

\* C5: when a broadcast in which a delivery failed returns, every other
\* subscriber that was in the live set when it was called, is still in it and
\* has an open channel has received the payload.
C5_FailureIsolated ==
    \A s \in Subs :
        (pc[s] = "Done" /\ disconnected[s] # <<>>) =>
            \A c \in snapshot[s] \ Elems(disconnected[s]) :
                (Contains(active, c) /\ conn[c] = "open") => Got(c, s)

\* C6: when a broadcast has returned, no subscriber whose delivery failed in
\* that call is in the live set.
C6_FailedEvictedAtReturn ==
    \A s \in Subs :
        pc[s] = "Done" => Elems(disconnected[s]) \cap Elems(active) = {}

C6_Witness ==
    \E s \in Subs :
        /\ pc[s] = "Done"
        /\ Len(disconnected[s]) >= 2
        /\ \E c \in Elems(disconnected[s]) : conn[c] = "closed"
        /\ active # <<>>

\* C7: a broadcast that has returned made a delivery attempt for every
\* subscriber that was in the live set when it was called.
C7_SnapshotAttempted ==
    \A s \in Subs : pc[s] = "Done" => snapshot[s] \subseteq attempted[s]

\* C8: disconnect raises nothing; for a websocket that is not in the live set
\* it leaves the list as it is, for one that is in it it removes that
\* websocket alone and keeps the others in their order.
C8_DisconnectIdempotent ==
    \A c \in Conns :
        LET res == disconnect(active, c)
        IN /\ ~res.raised
           /\ ~Contains(active, c) => res.list = active
           /\ Contains(active, c) =>
                  res.list = SelectSeq(active, LAMBDA x : x # c)
           /\ disconnect(res.list, c) = [raised |-> FALSE, list |-> res.list]

C8_Witness ==
    \E s \in Subs : \E c, d \in Conns :
        /\ pc[s] = "Done"
        /\ Contains(disconnected[s], c)
        /\ conn[c] = "ended"
        /\ conn[d] = "new"
        /\ Len(active) >= 1

\* C9: of two broadcast calls, every subscriber that receives both payloads
\* receives the payload of the call made first before that of the other.
C9_BroadcastOrderKept ==
    \A s, t \in Subs :
        (border[s] > 0 /\ border[s] < border[t]) =>
            \A c \in Conns :
                (Got(c, s) /\ Got(c, t)) => Pos(c, s) < Pos(c, t)

\* C10: every broadcast call that was made returns, whatever the subscribers
\* do.
C10_BroadcastReturns ==
    \A s \in Subs : (border[s] > 0) ~> (pc[s] = "Done")

\* C11: the texts sent to a subscriber are Incident Results of persisted
\* incidents of submissions none of whose steps failed, each at most once.
C11_OnePerSuccessfulSubmission ==
    \A c \in Conns : \A i \in 1..Len(received[c]) :
        /\ received[c][i] \in Elems(store)
        /\ received[c][i].message \in Subs
        /\ failedAt[received[c][i].message] = "none"
        /\ \A j \in 1..Len(received[c]) :
               received[c][j].message = received[c][i].message => j = i

C11_Witness ==
    \E s, t \in Subs : \E c \in Conns :
        /\ pc[s] = "Done"
        /\ Failed(t)
        /\ Got(c, s)
        /\ snapshot[s] # attempted[s]

\* C12: get_logs returns at most LogsCap rows, in strictly decreasing order
\* of id, and every row it leaves out has a smaller id than every row it
\* returns.
C12_RecentCappedNewestFirst ==
    LET got == get_logs
        ids == [i \in 1..Len(got) |-> got[i].id]
        left == {row.id : row \in Elems(store) \ Elems(got)}
    IN /\ Len(got) <= LogsCap
       /\ Len(logs) <= LogsCap
       /\ Len(got) = IF Len(store) < LogsCap THEN Len(store) ELSE LogsCap
       /\ Elems(got) \subseteq Elems(store)
       /\ \A i \in 1..(Len(got) - 1) : ids[i] > ids[i + 1]
       /\ \A i \in 1..(Len(logs) - 1) : logs[i].id > logs[i + 1].id
       /\ \A id \in left : \A i \in 1..Len(got) : id < ids[i]

C12_Witness ==
    /\ Len(store) > LogsCap
    /\ Len(logs) = LogsCap
    /\ logs[1].id = Len(store)

\* C13: once the channel of a subscriber has closed, the endpoint's handling
\* of the close can run whenever the event loop is idle, and once it has run
\* the subscriber is not in the live set, then or later.
C13_ClosedUnregistered ==
    \A c \in Conns :
        /\ (conn[c] = "closed" /\ loop = 0) => ENABLED WsDisconnect(c)
        /\ conn[c] = "ended" => ~Contains(active, c)

C13_Witness ==
    \E c, d \in Conns :
        /\ conn[c] = "ended"
        /\ received[c] # <<>>
        /\ \A s \in Subs : ~Contains(disconnected[s], c)
        /\ Contains(active, d)

\* C14: a submission moves only along Received -> Classified -> Persisted ->
\* CacheAttempted -> Broadcast -> Done, fails with ClassificationFailed only
\* from Received and with PersistenceFailed only from the persist step, and
\* never goes back to a step.  (Added and Committed are inside the persist
\* step, Sending is inside the broadcast step.)
StepEdges ==
    { <<"Idle", "Received">>, <<"Received", "Classified">>,
      <<"Received", "ClassificationFailed">>,
      <<"Classified", "Added">>, <<"Added", "Committed">>,
      <<"Committed", "Persisted">>,
      <<"Classified", "PersistenceFailed">>, <<"Added", "PersistenceFailed">>,
      <<"Committed", "PersistenceFailed">>,
      <<"Persisted", "CacheAttempted">>, <<"CacheAttempted", "Broadcast">>,
      <<"Broadcast", "Sending">>, <<"Sending", "Broadcast">>,
      <<"Broadcast", "Done">> }

C14_FixedStepOrder ==
    [][\A s \in Subs :
          /\ pc'[s] # pc[s] => <<pc[s], pc'[s]>> \in StepEdges
          /\ cacheOutcome'[s] # cacheOutcome[s] =>
                 (cacheOutcome[s] = "none" /\ pc[s] = "Persisted")
          /\ border'[s] # border[s] =>
                 (border[s] = 0 /\ pc[s] = "CacheAttempted")
          /\ Cardinality({i \in 1..Len(store') : store'[i].message = s}) <= 1]_vars

C14_Witness ==
    \E s, t \in Subs :
        /\ pc[s] = "Done"
        /\ attempted[s] # {}
        /\ pc[t] = "PersistenceFailed"
        /\ failedAt[t] = "commit"

\* C15: the live set does not change while a broadcast is suspended inside
\* its loop over it.
C15_NoMutationWhileIterating ==
    [][(\E s \in Subs : pc[s] = "Sending") => active' = active]_vars

\* C16: no delivery attempt is made to a subscriber after a delivery attempt
\* to it has failed, and a subscriber that has left the live set does not come
\* back to it.
C16_NoAttemptAfterFailure ==
    [][/\ \A s \in Subs :
              (pc[s] = "Broadcast" /\ pc'[s] = "Sending") =>
                  \A t \in Subs : ~Contains(disconnected[t], target'[s])
       /\ \A c \in Conns :
              (conn[c] # "new" /\ ~Contains(active, c)) => ~Contains(active', c)]_vars

\* C17: a step of a broadcast removes from the live set only subscribers
\* whose delivery failed in that call, and only when the call returns; the
\* others keep their places.
C17_OnlyFailedEvicted ==
    [][\A s \in Subs :
          (pc'[s] # pc[s] /\ pc[s] \in {"CacheAttempted", "Broadcast", "Sending"}) =>
              /\ pc'[s] # "Done" => active' = active
              /\ pc'[s] = "Done" =>
                     active' = SelectSeq(active,
                                   LAMBDA c : ~Contains(disconnected[s], c))]_vars

C17_Witness ==
    \E s \in Subs : \E c, d \in Conns :
        /\ pc[s] = "Done"
        /\ Contains(disconnected[s], c)
        /\ d \in attempted[s]
        /\ Got(d, s)
        /\ Contains(active, d)

\* C18: the cache slot holds nothing or the Incident Result of a row of the
\* store, and a cache write never replaces an id by a smaller one.
C18_CacheMonotonic ==
    [][/\ cache' # NoPayload => cache' \in Elems(store')
       /\ cache'.id >= cache.id]_vars

C18_Witness ==
    \E s, t \in Subs :
        /\ pc[s] = "Sending"
        /\ cacheOutcome[s] = "ok"
        /\ cacheOutcome[t] = "ok"
        /\ cache = Payload(t)
        /\ cache.id > incId[s]

====
